---- MODULE Spec2Model ----
(***************************************************************************)
(* Model of the procurement assistant core: the query executor             *)
(* (database.py, MongoDBManager), the tool action                          *)
(* (ai_agent.py, ProcurementAssistant._execute_mongodb_query) and the      *)
(* per-question turn (ProcurementAssistant.query) with its conversation    *)
(* history.                                                                *)
(***************************************************************************)
EXTENDS Integers, Sequences, FiniteSets, TLC

VARIABLES
    collection,            \* MongoDBManager.collection: the stored documents, in store order
    storeUp,               \* whether the store answers; FALSE makes every find/aggregate raise
    callerQuery,           \* the filter a caller holds for execute_query
    callerPipeline,        \* the pipeline list a caller holds; execute_aggregation appends to it in place
    lastCall,              \* the last direct executor call and what it produced
    toolInput,             \* the (query_type, payload text) about to be handed to a tool action
    lastTool,              \* the last tool action and what it returned
    conversation_history,  \* ProcurementAssistant.conversation_history
    apiKey,                \* Config.OPENAI_API_KEY: "absent" (None), "empty" ('') or "set"
    connectCalls,          \* connect() calls made by the MongoDBManager of the latest construction
    db_client,             \* MongoDBManager.client: 0 (None) or the number of the connection it holds
    constructError,        \* what the latest ProcurementAssistant() raised: "none", "config" or "connection"
    pc,                    \* "new" (no assistant yet), "idle" (no turn in progress) or "decide" (inside the agent loop)
    question,              \* user_question of the turn in progress
    chat_history,          \* the context window handed to the agent for this turn
    iterations,            \* AgentExecutor's iteration counter for this turn
    toolCalls,             \* tool invocations made during this turn
    observation,           \* "none", "ok", "empty" or "error": kind of the last tool output seen by the agent
    returned,              \* what the last query() call gave its caller
    record,                \* one record on its way through the quarter $addFields stage
    total_spending,        \* overview['total_spending'], in whole dollars
    metric,                \* the "Total Spending" figure the sidebar shows
    cache,                 \* st.cache_resource entry of get_assistant: 0 (empty) or the instance it holds
    histories,             \* histories[a]: conversation_history of the a-th ProcurementAssistant created by the app
    sessions,              \* sessions[s]: st.session_state of browser session s
    max_records,           \* load_csv_to_mongodb's max_records: not given (None) or a number
    chunk_size,            \* load_csv_to_mongodb's chunk_size
    rows_left,             \* rows of the CSV file the chunk iterator has not yet read
    chunks_read,           \* chunks the iterator has handed to the loop
    stats,                 \* load_csv_to_mongodb's stats; status "" until the function sets it
    last_chunk             \* what the last loop iteration did, and with how many records

vars == <<collection, storeUp, callerQuery, callerPipeline, lastCall, toolInput,
          lastTool, apiKey, connectCalls, db_client, constructError,
          conversation_history, pc, question, chat_history, iterations,
          toolCalls, observation, returned, record, total_spending, metric,
          cache, histories, sessions, max_records, chunk_size, rows_left,
          chunks_read, stats, last_chunk>>

\* The record being mapped and the sidebar figure
pureVars == <<record, total_spending, metric>>

\* The Streamlit application's state
appVars == <<cache, histories, sessions>>

\* DataLoader.load_csv_to_mongodb's arguments, file position and counters
loadVars == <<max_records, chunk_size, rows_left, chunks_read, stats, last_chunk>>

viewVars == <<pureVars, appVars, loadVars>>

\* The credential and the connection made at construction
connVars == <<apiKey, connectCalls, db_client, constructError>>

(***************************************************************************)
(* Bounds of the model                                                     *)
(***************************************************************************)
MaxDocs == 101          \* largest collection explored
MaxTurns == 14          \* conversation_history is grown up to this many turns
MaxPipelineLen == 2     \* longest pipeline handed to the executor
MonthRange == 14        \* month numbers -MonthRange..MonthRange are mapped to quarters
NumSessions == 2        \* browser sessions served at the same time
MaxMessages == 3        \* a session's message list is grown up to this length
MaxRows == 5            \* rows of the largest CSV file loaded
MaxToolCallsPerStep == 2 \* most tool calls the language model asks for in one reply

(***************************************************************************)
(* Program constants                                                       *)
(***************************************************************************)
MAX_ITERATIONS == 3     \* Config.MAX_ITERATIONS
ExecutorLimit == 100    \* limit=100 passed by the tool action
ToolCap == 10           \* results[:10]
WindowSize == 10        \* conversation_history[-10:]

Min(a, b) == IF a < b THEN a ELSE b
Max(a, b) == IF a > b THEN a ELSE b

Take(s, n) == SubSeq(s, 1, Min(Max(n, 0), Len(s)))

LastN(s, n) == SubSeq(s, Max(Len(s) - n, 0) + 1, Len(s))

Reverse(s) == [i \in 1..Len(s) |-> s[Len(s) + 1 - i]]

(***************************************************************************)
(* The store.  A document carries the three fields the queries look at.    *)
(* Total Price may be negative or zero (data-entry artifacts).             *)
(***************************************************************************)
NumFiscalYears == 3

Doc(i) == [id |-> i, fy |-> i % NumFiscalYears, price |-> (i % 4) - 1]

MakeCollection(n) == [i \in 1..n |-> Doc(i)]

\* Filters, named by the MongoDB filter document they stand for.
\*   "all"      {}
\*   "fy0"      {"Fiscal Year": <year 0>}
\*   "pricePos" {"Total Price": {"$gt": 0, "$type": "number"}}
\*   "none"     {"Department Name": <a name no document has>}
\*   "bad"      a filter the store rejects (unknown operator)
\*   "fy0pricePos"  both of "fy0" and "pricePos"
ValidFilters == {"all", "fy0", "pricePos", "fy0pricePos", "none"}
Filters == ValidFilters \cup {"bad"}

Matches(d, f) ==
    CASE f = "all" -> TRUE
      [] f = "fy0" -> d.fy = 0
      [] f = "pricePos" -> d.price > 0
      [] f = "fy0pricePos" -> d.fy = 0 /\ d.price > 0
      [] OTHER -> FALSE

Select(docs, f) ==
    LET M(d) == Matches(d, f) IN SelectSeq(docs, M)

\* Pipeline stages: a stage is a one-key document {op: ...}.  A "$match"
\* stage carries a filter, a "$limit" stage a number; any other operator
\* name ("$bad") is one the store does not know.
Stage(op, f, n) == [op |-> op, filter |-> f, n |-> n]
MatchStage(f) == Stage("$match", f, 0)
LimitStage(n) == Stage("$limit", "", n)
SortStage == Stage("$sort", "", 0)
GroupStage == Stage("$group", "", 0)
\* {"$addFields": ...}: derives new fields (date_obj, creation_month, quarter)
AddFieldsStage == Stage("$addFields", "", 0)
\* {"$out": "purchase_orders"}: writes the stage's input over the collection
OutStage == Stage("$out", "purchase_orders", 0)

RECURSIVE SumPrice(_)
SumPrice(docs) ==
    IF docs = <<>> THEN 0 ELSE Head(docs).price + SumPrice(Tail(docs))

\* {"$group": {"_id": "$Fiscal Year", "total": {"$sum": "$Total Price"}}}:
\* one output document per fiscal year present in the input.
RECURSIVE GroupFrom(_, _)
GroupFrom(docs, k) ==
    IF k >= NumFiscalYears THEN <<>>
    ELSE LET F(d) == d.fy = k
             part == SelectSeq(docs, F)
         IN  (IF part = <<>> THEN <<>>
              ELSE <<[id |-> k, fy |-> k, price |-> SumPrice(part)]>>)
             \o GroupFrom(docs, k + 1)

StageOps == {"$match", "$limit", "$sort", "$group", "$addFields", "$out"}

\* What the store accepts: known operators, a well-formed $match filter, a
\* positive $limit, and "$out" as the final stage only.
ValidStage(st) ==
    /\ st.op \in StageOps
    /\ st.op = "$match" => st.filter \in ValidFilters
    /\ st.op = "$limit" => st.n > 0

ValidPipeline(p) ==
    \A i \in 1..Len(p) :
        /\ ValidStage(p[i])
        /\ p[i].op = "$out" => i = Len(p)

\* The pipeline ends in a stage that writes its input to the collection.
WritesStore(p) == p # <<>> /\ p[Len(p)].op = "$out"

ApplyStage(docs, st) ==
    CASE st.op = "$match" -> Select(docs, st.filter)
      [] st.op = "$limit" -> Take(docs, st.n)
      [] st.op = "$sort" -> Reverse(docs)
      [] st.op = "$group" -> GroupFrom(docs, 0)
      [] st.op = "$addFields" -> docs
      [] OTHER -> docs

RECURSIVE RunPipeline(_, _)
RunPipeline(docs, p) ==
    IF p = <<>> THEN docs ELSE RunPipeline(ApplyStage(docs, Head(p)), Tail(p))

(***************************************************************************)
(* MongoDBManager.execute_query / execute_aggregation.  Each gives back    *)
(* whether it raised, the results, and (aggregation) the pipeline list as  *)
(* it stands after the call, which is what was sent to the store.          *)
(***************************************************************************)
Raised(sent) == [raised |-> TRUE, results |-> <<>>, sent |-> sent]
Returned(res, sent) == [raised |-> FALSE, results |-> res, sent |-> sent]

execute_query(coll, up, query, limit) ==
    IF ~up \/ query \notin ValidFilters
    THEN Raised(<<>>)
    ELSE Returned(Take(Select(coll, query), limit), <<>>)

HasLimitStage(pipeline) == \E i \in 1..Len(pipeline) : pipeline[i].op = "$limit"

\* Mutant of WithLimit: the limit stage is appended whatever the pipeline holds.
WithLimitAlways(pipeline, limit) == Append(pipeline, LimitStage(limit))

\* Mutant of WithLimit: only a limit stage at the end of the pipeline counts.
WithLimitUnlessLast(pipeline, limit) ==
    IF pipeline # <<>> /\ pipeline[Len(pipeline)].op = "$limit"
    THEN pipeline
    ELSE Append(pipeline, LimitStage(limit))

WithLimit(pipeline, limit) ==
    IF ~HasLimitStage(pipeline)
    THEN Append(pipeline, LimitStage(limit))
    ELSE pipeline

execute_aggregation(coll, up, pipeline, limit) ==
    LET sent == WithLimit(pipeline, limit)
    IN  IF ~up \/ ~ValidPipeline(sent)
        THEN Raised(sent)
        ELSE IF WritesStore(sent)
             THEN Returned(<<>>, sent)
             ELSE Returned(RunPipeline(coll, sent), sent)

\* The collection after execute_aggregation: collection.aggregate(pipeline)
\* runs whatever stages it is given, a writing stage included.
StoreAfterAggregation(coll, up, pipeline, limit) ==
    LET sent == WithLimit(pipeline, limit)
    IN  IF up /\ ValidPipeline(sent) /\ WritesStore(sent)
        THEN RunPipeline(coll, SubSeq(sent, 1, Len(sent) - 1))
        ELSE coll

(***************************************************************************)
(* Tool payloads.  The payload is text; what json.loads makes of it is     *)
(* its type: "notjson" (JSONDecodeError), or a JSON number, list or        *)
(* object.  An object carries the keys it has.                             *)
(***************************************************************************)
Payload(type, keys, query, pipeline) ==
    [type |-> type, keys |-> keys, query |-> query, pipeline |-> pipeline]

NotJson == Payload("notjson", {}, "all", <<>>)
JsonNumber == Payload("number", {}, "all", <<>>)
JsonList(p) == Payload("list", {}, "all", p)
JsonObject(keys, q, p) == Payload("dict", keys, q, p)

\* json.dumps of the dictionaries the tool action returns
NoNote == [text |-> "", first |-> 0, of |-> 0]
TruncationNote(n) == [text |-> "Showing first 10 of N results", first |-> ToolCap, of |-> n]

ErrorOut(msg) ==
    [keys |-> {"error"}, error |-> msg, message |-> "", count |-> 0,
     results |-> <<>>, note |-> NoNote]

NoResultsOut ==
    [keys |-> {"message", "count"}, error |-> "", message |-> "No results found",
     count |-> 0, results |-> <<>>, note |-> NoNote]

\* Mutant of SummaryOut: the cut is made at >= 10 instead of > 10.
SummaryOutOffByOne(results) ==
    [keys |-> {"count", "results", "note"}, error |-> "", message |-> "",
     count |-> Len(results),
     results |-> IF Len(results) >= ToolCap THEN Take(results, ToolCap - 1) ELSE results,
     note |-> IF Len(results) >= ToolCap THEN TruncationNote(Len(results)) ELSE NoNote]

SummaryOut(results) ==
    [keys |-> {"count", "results", "note"}, error |-> "", message |-> "",
     count |-> Len(results),
     results |-> IF Len(results) > ToolCap THEN Take(results, ToolCap) ELSE results,
     note |-> IF Len(results) > ToolCap THEN TruncationNote(Len(results)) ELSE NoNote]

\* What a tool action hands back: the output, whether an exception left the
\* function, and the executor call it made (called = "none" when it made
\* none) with what the executor gave.
ToolReturn(out, called, query, pipeline, exec) ==
    [raised |-> FALSE, out |-> out, called |-> called, query |-> query,
     pipeline |-> pipeline, exec |-> exec]

\* Mutant of HandleException: the exception leaves the tool action.
HandleExceptionMissing(msg, called, query, pipeline, exec) ==
    [raised |-> TRUE, out |-> NoResultsOut, called |-> called, query |-> query,
     pipeline |-> pipeline, exec |-> exec]

\* except json.JSONDecodeError / except Exception
HandleException(msg, called, query, pipeline, exec) ==
    ToolReturn(ErrorOut(msg), called, query, pipeline, exec)

\* Mutant of FormatResults: an empty result list is reported as an error.
FormatResultsEmptyIsError(called, query, pipeline, exec) ==
    IF exec.raised \/ exec.results = <<>>
    THEN HandleException("Error executing query", called, query, pipeline, exec)
    ELSE ToolReturn(SummaryOut(exec.results), called, query, pipeline, exec)

FormatResults(called, query, pipeline, exec) ==
    IF exec.raised
    THEN HandleException("Error executing query", called, query, pipeline, exec)
    ELSE IF exec.results = <<>>
         THEN ToolReturn(NoResultsOut, called, query, pipeline, exec)
         ELSE ToolReturn(SummaryOut(exec.results), called, query, pipeline, exec)

ToolAggregate(coll, up, pipeline) ==
    FormatResults("aggregate", "", pipeline,
                  execute_aggregation(coll, up, pipeline, ExecutorLimit))

ToolFind(coll, up, find_query) ==
    FormatResults("find", find_query, <<>>,
                  execute_query(coll, up, find_query, ExecutorLimit))

execute_mongodb_query(coll, up, query_type, payload) ==
    IF payload.type = "notjson"
    THEN HandleException("Invalid JSON format", "none", "", <<>>, Raised(<<>>))
    ELSE IF query_type = "aggregate"
         THEN IF payload.type = "list"
              THEN ToolAggregate(coll, up, payload.pipeline)
              ELSE IF payload.type = "dict"
                   THEN ToolAggregate(coll, up,
                            IF "pipeline" \in payload.keys THEN payload.pipeline ELSE <<>>)
                   ELSE HandleException("Error executing query", "none", "", <<>>, Raised(<<>>))
         ELSE IF payload.type = "dict"
              THEN ToolFind(coll, up,
                       IF "query" \in payload.keys THEN payload.query ELSE "all")
              ELSE HandleException("Error executing query", "none", "", <<>>, Raised(<<>>))

(***************************************************************************)
(* Inputs explored                                                         *)
(***************************************************************************)
StoreSizes == {0, 1, ToolCap, ToolCap + 1, ExecutorLimit, MaxDocs}
Limits == {1, ToolCap, ExecutorLimit}

Stages ==
    {MatchStage(f) : f \in {"fy0", "pricePos", "none", "bad"}}
    \cup {LimitStage(n) : n \in {0, 1, 5, ExecutorLimit + 50}}
    \cup {SortStage, GroupStage, OutStage, Stage("$bad", "", 0)}

Pipelines == UNION {[1..n -> Stages] : n \in 0..MaxPipelineLen}

Payloads ==
    {NotJson, JsonNumber, JsonObject({}, "all", <<>>)}
    \cup {JsonList(p) : p \in Pipelines}
    \cup {JsonObject({"query"}, q, <<>>) : q \in Filters}
    \cup {JsonObject({"pipeline"}, "all", p) : p \in Pipelines}

\* A record before the quarter stage, the sidebar before it is drawn, and
\* the application before any browser session has run its script.
NoQuarter == ""

NoMetric == [prefix |-> "", hundredths |-> 0, suffix |-> "none"]

Sessions == 1..NumSessions

NoSession ==
    [started |-> FALSE, assistant |-> 0, messages |-> <<>>,
     pending |-> [kind |-> "empty", n |-> 0],
     running |-> [kind |-> "empty", n |-> 0], recorded |-> FALSE,
     context |-> <<>>]

\* max_records=None, and max_records=n
NotGiven == [given |-> FALSE, n |-> 0]
Given(n) == [given |-> TRUE, n |-> n]

NoStats ==
    [total_records |-> 0, inserted_records |-> 0, failed_records |-> 0, status |-> ""]

NoChunk == [outcome |-> "none", records |-> 0]

\* No load has been asked for.
LoaderIdle ==
    /\ max_records = NotGiven
    /\ chunk_size = 1
    /\ rows_left = 0
    /\ chunks_read = 0
    /\ stats = [NoStats EXCEPT !.status = "success"]
    /\ last_chunk = NoChunk

ViewInit ==
    /\ LoaderIdle
    /\ record = [fiscal_year |-> 0, creation_month |-> 1, quarter |-> NoQuarter]
    /\ total_spending = 0
    /\ metric = NoMetric
    /\ cache = 0
    /\ histories = <<>>
    /\ sessions = [s \in Sessions |-> NoSession]

NoCall ==
    [op |-> "none", by |-> "none", limit |-> 0, query |-> "", given |-> <<>>,
     raised |-> FALSE, results |-> <<>>, sent |-> <<>>]

NoTool ==
    [query_type |-> "none", payload |-> NotJson, raised |-> FALSE, out |-> NoResultsOut,
     called |-> "none", query |-> "", pipeline |-> <<>>, exec |-> Raised(<<>>)]

NothingReturned == [kind |-> "none", text |-> [kind |-> "empty", n |-> 0]]

\* The assistant as constructed (__init__): the credential is set, one
\* connection is open, the history is empty and no turn is in progress.
AssistantInit ==
    /\ apiKey = "set"
    /\ connectCalls = 1
    /\ db_client = 1
    /\ constructError = "none"
    /\ conversation_history = <<>>
    /\ pc = "idle"
    /\ question = [kind |-> "empty", n |-> 0]
    /\ chat_history = <<>>
    /\ iterations = 0
    /\ toolCalls = 0
    /\ observation = "none"
    /\ returned = NothingReturned

assistantVars == <<connVars, conversation_history, pc, question, chat_history,
                   iterations, toolCalls, observation, returned>>

(***************************************************************************)
(* Direct calls of the executor: a caller holds a filter or a pipeline     *)
(* list and calls execute_query / execute_aggregation with some limit.     *)
(***************************************************************************)
InitExec ==
    /\ collection \in {MakeCollection(n) : n \in StoreSizes}
    /\ storeUp \in BOOLEAN
    /\ \/ callerQuery \in Filters /\ callerPipeline = <<>>
       \/ callerQuery = "all" /\ callerPipeline \in Pipelines
    /\ lastCall = NoCall
    /\ toolInput = NotJson
    /\ lastTool = NoTool
    /\ AssistantInit
    /\ ViewInit

ExecuteQuery ==
    \E limit \in Limits :
        LET r == execute_query(collection, storeUp, callerQuery, limit)
        IN  /\ lastCall' = [op |-> "find", by |-> "caller", limit |-> limit, query |-> callerQuery,
                            given |-> <<>>, raised |-> r.raised,
                            results |-> r.results, sent |-> r.sent]
            /\ UNCHANGED <<collection, storeUp, callerQuery, callerPipeline,
                           toolInput, lastTool, assistantVars, viewVars>>

ExecuteAggregation ==
    \E limit \in Limits :
        LET r == execute_aggregation(collection, storeUp, callerPipeline, limit)
        IN  /\ lastCall' = [op |-> "aggregate", by |-> "caller", limit |-> limit,
                            query |-> "",
                            given |-> callerPipeline, raised |-> r.raised,
                            results |-> r.results, sent |-> r.sent]
            /\ callerPipeline' = r.sent
            /\ collection' = StoreAfterAggregation(collection, storeUp, callerPipeline, limit)
            /\ UNCHANGED <<storeUp, callerQuery, toolInput, lastTool, assistantVars, viewVars>>

\* DataExplorer: the pipelines its analyses build, each with the limit it
\* passes to execute_aggregation.
ExplorerCall(pipeline, limit) == [pipeline |-> pipeline, limit |-> limit]

TopN == {1, 10, 20}

analyze_spending_by_fiscal_year ==
    ExplorerCall(<<MatchStage("pricePos"), GroupStage, SortStage>>, 10)

analyze_spending_by_department(top_n) ==
    ExplorerCall(<<MatchStage("pricePos"), GroupStage, SortStage, LimitStage(top_n)>>, top_n)

analyze_acquisition_methods ==
    ExplorerCall(<<MatchStage("pricePos"), GroupStage, SortStage>>, 50)

get_top_suppliers(top_n) ==
    ExplorerCall(<<MatchStage("pricePos"), GroupStage, SortStage, LimitStage(top_n)>>, top_n)

get_top_items(top_n) ==
    ExplorerCall(<<MatchStage("pricePos"), GroupStage, SortStage, LimitStage(top_n)>>, top_n)

analyze_quarterly_spending(fiscal_year) ==
    ExplorerCall(<<MatchStage(IF fiscal_year = "" THEN "pricePos" ELSE "fy0pricePos"),
                   AddFieldsStage, AddFieldsStage, AddFieldsStage, GroupStage, SortStage>>,
                 50)

ExplorerCalls ==
    {analyze_spending_by_fiscal_year, analyze_acquisition_methods}
    \cup {analyze_spending_by_department(n) : n \in TopN}
    \cup {get_top_suppliers(n) : n \in TopN}
    \cup {get_top_items(n) : n \in TopN}
    \cup {analyze_quarterly_spending(fy) : fy \in {"", "fy0"}}

\* One DataExplorer analysis: it builds its pipeline and runs it.
ExplorerAnalyze ==
    \E call \in ExplorerCalls :
        LET r == execute_aggregation(collection, storeUp, call.pipeline, call.limit)
        IN  /\ lastCall' = [op |-> "aggregate", by |-> "explorer", limit |-> call.limit,
                            query |-> "",
                            given |-> call.pipeline, raised |-> r.raised,
                            results |-> r.results, sent |-> r.sent]
            /\ collection' = StoreAfterAggregation(collection, storeUp, call.pipeline, call.limit)
            /\ UNCHANGED <<storeUp, callerQuery, callerPipeline, toolInput, lastTool,
                           assistantVars, viewVars>>

NextExec == ExecuteQuery \/ ExecuteAggregation \/ ExplorerAnalyze

SpecExec == InitExec /\ [][NextExec]_vars

(***************************************************************************)
(* The two tool actions (_create_tools), each handed a payload text.       *)
(***************************************************************************)
InitTool ==
    /\ collection \in {MakeCollection(n) : n \in StoreSizes}
    /\ storeUp \in BOOLEAN
    /\ callerQuery = "all"
    /\ callerPipeline = <<>>
    /\ lastCall = NoCall
    /\ toolInput \in Payloads
    /\ lastTool = NoTool
    /\ AssistantInit
    /\ ViewInit

\* The collection after a tool action: the find branch only reads; the
\* aggregate branch hands the payload's pipeline to execute_aggregation.
StoreAfterTool(coll, up, r) ==
    IF r.called = "aggregate"
    THEN StoreAfterAggregation(coll, up, r.pipeline, ExecutorLimit)
    ELSE coll

InvokeTool(query_type) ==
    LET r == execute_mongodb_query(collection, storeUp, query_type, toolInput)
    IN  /\ lastTool' = [query_type |-> query_type, payload |-> toolInput,
                        raised |-> r.raised, out |-> r.out, called |-> r.called,
                        query |-> r.query, pipeline |-> r.pipeline, exec |-> r.exec]
        /\ collection' = StoreAfterTool(collection, storeUp, r)
        /\ UNCHANGED <<storeUp, callerQuery, callerPipeline, lastCall,
                       toolInput, assistantVars, viewVars>>

execute_mongodb_aggregate == InvokeTool("aggregate")

execute_mongodb_find == InvokeTool("find")

NextTool == execute_mongodb_aggregate \/ execute_mongodb_find

SpecTool == InitTool /\ [][NextTool]_vars

(***************************************************************************)
(* ProcurementAssistant.query: one turn per user question.  The agent      *)
(* executor is built with max_iterations = MAX_ITERATIONS; each of its     *)
(* iterations asks the language model for the next step, which is either   *)
(* a tool action (one per iteration) or the final answer.                  *)
(***************************************************************************)
\* Texts.  A text is named by what it is and, for a question and the
\* answer to it, by the number of the question; the empty string is NoText.
Text(kind, n) == [kind |-> kind, n |-> n]
NoText == Text("empty", 0)

\* The user asks a new question every time: the question put after k
\* recorded turns is question number k \div 2 + 1.
Questions == {Text("question", i) : i \in 1..(MaxTurns \div 2)}

\* What the language model answers; the text depends on the question only.
AnswerTo(q) == Text("answer", q.n)

\* AgentExecutor's output when the iteration budget is used up:
\* "Agent stopped due to iteration limit or time limit."
StoppedAnswer == Text("stopped", 0)

Turn(role, content) == [role |-> role, content |-> content]

\* The tool calls the language model chooses among
AgentToolInputs ==
    {[query_type |-> "find", payload |-> NotJson],
     [query_type |-> "find", payload |-> JsonObject({"query"}, "all", <<>>)],
     [query_type |-> "find", payload |-> JsonObject({"query"}, "none", <<>>)],
     [query_type |-> "aggregate", payload |-> JsonList(<<GroupStage>>)]}

ObservationKind(out) ==
    IF "error" \in out.keys THEN "error"
    ELSE IF out.count = 0 THEN "empty" ELSE "ok"

\* Mutant of format_chat_history: the window is one turn short.
format_chat_history_short(history) ==
    LET recent == LastN(history, WindowSize - 1)
    IN  [i \in 1..Len(recent) |->
            [type |-> IF recent[i].role = "user" THEN "human" ELSE "ai",
             content |-> recent[i].content]]

\* _format_chat_history: HumanMessage / AIMessage for the last 10 entries
format_chat_history(history) ==
    LET recent == LastN(history, WindowSize)
    IN  [i \in 1..Len(recent) |->
            [type |-> IF recent[i].role = "user" THEN "human" ELSE "ai",
             content |-> recent[i].content]]

\* Mutant of QueryExcept: query() has no handler and the exception leaves it.
QueryExceptMissing == [kind |-> "raised", text |-> NoText]

\* except Exception in query(): the error string handed to the caller
QueryExcept == [kind |-> "error", text |-> Text("error", 0)]

ApiKeys == {"absent", "empty", "set"}

\* Before ProcurementAssistant() is called: the environment holds some
\* credential, the store is up or down, and there is no assistant.
Init ==
    /\ collection = MakeCollection(ToolCap + 1)
    /\ storeUp \in BOOLEAN
    /\ callerQuery = "all"
    /\ callerPipeline = <<>>
    /\ lastCall = NoCall
    /\ toolInput = NotJson
    /\ lastTool = NoTool
    /\ apiKey \in ApiKeys
    /\ connectCalls = 0
    /\ db_client = 0
    /\ constructError = "none"
    /\ conversation_history = <<>>
    /\ pc = "new"
    /\ question = NoText
    /\ chat_history = <<>>
    /\ iterations = 0
    /\ toolCalls = 0
    /\ observation = "none"
    /\ returned = NothingReturned
    /\ ViewInit

dataVars == <<collection, callerQuery, callerPipeline, lastCall, toolInput, lastTool>>

storeVars == <<dataVars, storeUp, connVars>>

turnVars == <<conversation_history, question, chat_history, iterations, toolCalls,
              observation, returned>>

\* Mutant of ConstructOutcome: the connection is opened before the
\* credential is looked at.
ConstructConnectsFirst(key, up) ==
    IF ~up THEN [error |-> "connection", connects |-> 1, instance |-> FALSE]
    ELSE IF key # "set" THEN [error |-> "config", connects |-> 1, instance |-> FALSE]
    ELSE [error |-> "none", connects |-> 1, instance |-> TRUE]

\* Mutant of ConstructOutcome: connect() logs the failure and goes on.
ConstructSwallowsConnectionFailure(key, up) ==
    IF key # "set" THEN [error |-> "config", connects |-> 0, instance |-> FALSE]
    ELSE [error |-> "none", connects |-> 1, instance |-> TRUE]

\* ProcurementAssistant.__init__: Config.validate() raises ValueError when
\* the key is None or ''; then MongoDBManager() calls connect(), which
\* re-raises ConnectionFailure when the ping fails; only then is there an
\* instance.
ConstructOutcome(key, up) ==
    IF key # "set" THEN [error |-> "config", connects |-> 0, instance |-> FALSE]
    ELSE IF ~up THEN [error |-> "connection", connects |-> 1, instance |-> FALSE]
    ELSE [error |-> "none", connects |-> 1, instance |-> TRUE]

\* One call of ProcurementAssistant(); a failed call can be made again.
Construct ==
    LET o == ConstructOutcome(apiKey, storeUp)
    IN  /\ pc = "new"
        /\ constructError' = o.error
        /\ connectCalls' = o.connects
        /\ db_client' = IF o.instance THEN o.connects ELSE 0
        /\ pc' = IF o.instance THEN "idle" ELSE "new"
        /\ UNCHANGED <<apiKey, dataVars, storeUp, turnVars, viewVars>>

\* The store becomes unreachable, or reachable again, at any moment.
StoreToggles ==
    /\ storeUp' = ~storeUp
    /\ UNCHANGED <<dataVars, connVars, pc, turnVars, viewVars>>

\* Mutant of QueryStart: the turn opens a connection of its own.
QueryStartReconnects ==
    \E q \in Questions :
        /\ pc = "idle"
        /\ Len(conversation_history) + 2 <= MaxTurns
        /\ q.n = Len(conversation_history) \div 2 + 1
        /\ pc' = "decide"
        /\ question' = q
        /\ chat_history' = format_chat_history(conversation_history)
        /\ iterations' = 0
        /\ toolCalls' = 0
        /\ observation' = "none"
        /\ connectCalls' = connectCalls + 1
        /\ db_client' = connectCalls + 1
        /\ UNCHANGED <<conversation_history, returned, dataVars, storeUp, apiKey,
                       constructError, viewVars>>

\* query() is entered: the agent is built and invoked with the question and
\* the formatted history.
QueryStart ==
    \E q \in Questions :
        /\ pc = "idle"
        /\ Len(conversation_history) + 2 <= MaxTurns
        /\ q.n = Len(conversation_history) \div 2 + 1
        /\ pc' = "decide"
        /\ question' = q
        /\ chat_history' = format_chat_history(conversation_history)
        /\ iterations' = 0
        /\ toolCalls' = 0
        /\ observation' = "none"
        /\ UNCHANGED <<conversation_history, returned, storeVars, viewVars>>

\* The turn ends in query()'s except branch: nothing is appended.
QueryRaises ==
    /\ pc' = "idle"
    /\ returned' = QueryExcept
    /\ observation' = "none"
    /\ UNCHANGED <<conversation_history, question, chat_history, storeVars, viewVars>>

\* The turn ends with an answer: question and answer are appended.
QueryReturns(answer) ==
    /\ pc' = "idle"
    /\ conversation_history' =
           conversation_history \o <<Turn("user", question), Turn("assistant", answer)>>
    /\ returned' = [kind |-> "answer", text |-> answer]
    /\ observation' = "none"
    /\ UNCHANGED <<question, chat_history, iterations, toolCalls, storeVars, viewVars>>

\* Mutant of LeavingLoop: an error payload ends the turn as an exception does.
LeavingLoopOnErrorPayload(r) ==
    {i \in DOMAIN r : r[i].raised \/ ObservationKind(r[i].out) = "error"}

\* The tool results that leave the agent loop: only an exception escaping
\* the tool does (it reaches query()'s except); a returned payload, error
\* payloads included, is an observation for the next iteration.
LeavingLoop(r) == {i \in DOMAIN r : r[i].raised}

\* One iteration of the agent executor in which the language model asks for
\* tool actions.  The agent is an OpenAI tools agent: one reply can carry
\* several tool calls, and the executor runs every one of them before the
\* iteration counter advances by one.
AgentInvokeTool ==
    \E n \in 1..MaxToolCallsPerStep :
        \E calls \in [1..n -> AgentToolInputs] :
            LET r == [i \in 1..n |->
                         execute_mongodb_query(collection, storeUp,
                                               calls[i].query_type, calls[i].payload)]
                raising == LeavingLoop(r)
                ran == IF raising = {} THEN n
                       ELSE CHOOSE i \in raising : \A j \in raising : i <= j
            IN  /\ pc = "decide"
                /\ iterations < MAX_ITERATIONS
                /\ toolCalls' = toolCalls + ran
                /\ iterations' = iterations + 1
                /\ IF raising # {}
                   THEN QueryRaises
                   ELSE /\ observation' =
                              IF \E i \in 1..n : ObservationKind(r[i].out) = "error"
                              THEN "error"
                              ELSE ObservationKind(r[n].out)
                        /\ UNCHANGED <<pc, returned, conversation_history, question,
                                       chat_history, storeVars, viewVars>>

\* One iteration in which the language model gives its final answer.
AgentFinish ==
    /\ pc = "decide"
    /\ iterations < MAX_ITERATIONS
    /\ QueryReturns(AnswerTo(question))

\* The iteration budget is used up: the executor stops with its own answer.
AgentStopped ==
    /\ pc = "decide"
    /\ iterations >= MAX_ITERATIONS
    /\ QueryReturns(StoppedAnswer)

\* The agent or the language model raises during the turn.
AgentFails ==
    /\ pc = "decide"
    /\ iterations < MAX_ITERATIONS
    /\ QueryRaises
    /\ UNCHANGED <<iterations, toolCalls>>

reset_conversation ==
    /\ pc = "idle"
    /\ conversation_history' = <<>>
    /\ returned' = [kind |-> "reset", text |-> NoText]
    /\ UNCHANGED <<pc, question, chat_history, iterations, toolCalls, observation,
                   storeVars, viewVars>>

Next ==
    \/ Construct
    \/ StoreToggles
    \/ QueryStart
    \/ AgentInvokeTool
    \/ AgentFinish
    \/ AgentStopped
    \/ AgentFails
    \/ reset_conversation

Spec == Init /\ [][Next]_vars

(***************************************************************************)
(* The quarter mapping and the sidebar's spending figure, each applied to  *)
(* inputs drawn at the start.                                              *)
(***************************************************************************)
Branch(months, then) == [months |-> months, then |-> then]

\* "branches" of the $switch, in the order written
QuarterBranches ==
    <<Branch({7, 8, 9}, "Q1"), Branch({10, 11, 12}, "Q2"),
      Branch({1, 2, 3}, "Q3"), Branch({4, 5, 6}, "Q4")>>

\* $switch: the first branch whose case ($in) holds, else the default
Switch(branches, default, v) ==
    LET hits == {i \in 1..Len(branches) : v \in branches[i].months}
    IN  IF hits = {} THEN default
        ELSE branches[CHOOSE i \in hits : \A j \in hits : i <= j].then

\* Mutant of Quarter: calendar quarters instead of fiscal ones.
QuarterCalendar(month) ==
    Switch(<<Branch({1, 2, 3}, "Q1"), Branch({4, 5, 6}, "Q2"),
             Branch({7, 8, 9}, "Q3"), Branch({10, 11, 12}, "Q4")>>, "Unknown", month)

Quarter(month) == Switch(QuarterBranches, "Unknown", month)

\* Thresholds of the money formatting guidelines
Billion == 1000000000
Million == 1000000
TenThousand == 10000

\* f"${total/1e9:.2f}B": the figure in hundredths of a billion, rounded
FormatTotalSpending(v) ==
    [prefix |-> "$", hundredths |-> (v + 5000000) \div 10000000, suffix |-> "B"]

Months == (0 - MonthRange)..MonthRange

Amounts ==
    {0, 5432, TenThousand - 1, TenThousand, 15200, Million - 1, Million, 125500000,
     Billion - 1, Billion, 2000000000}

InitPure ==
    /\ collection = MakeCollection(1)
    /\ storeUp = TRUE
    /\ callerQuery = "all"
    /\ callerPipeline = <<>>
    /\ lastCall = NoCall
    /\ toolInput = NotJson
    /\ lastTool = NoTool
    /\ AssistantInit
    /\ \E m \in Months, fy \in 0..(NumFiscalYears - 1) :
           record = [fiscal_year |-> fy, creation_month |-> m, quarter |-> NoQuarter]
    /\ total_spending \in Amounts
    /\ metric = NoMetric
    /\ cache = 0
    /\ histories = <<>>
    /\ sessions = [s \in Sessions |-> NoSession]
    /\ LoaderIdle

\* The third $addFields stage applied to the record
AddQuarterField ==
    /\ record.quarter = NoQuarter
    /\ record' = [record EXCEPT !.quarter = Quarter(record.creation_month)]
    /\ UNCHANGED <<total_spending, metric, appVars, loadVars, storeVars, pc, turnVars>>

\* display_sidebar draws the Total Spending metric
DisplayTotalSpending ==
    /\ metric = NoMetric
    /\ metric' = FormatTotalSpending(total_spending)
    /\ UNCHANGED <<record, total_spending, appVars, loadVars, storeVars, pc, turnVars>>

NextPure == AddQuarterField \/ DisplayTotalSpending

SpecPure == InitPure /\ [][NextPure]_vars

(***************************************************************************)
(* The Streamlit application: every browser session runs the script with   *)
(* its own st.session_state; get_assistant is an st.cache_resource.        *)
(***************************************************************************)
\* @st.cache_resource get_assistant(): the first call creates the assistant
\* (the created-th + 1), every later call, from any session, gets that one.
get_assistant(cached, created) == IF cached = 0 THEN created + 1 ELSE cached

InitApp ==
    /\ collection = MakeCollection(1)
    /\ storeUp = TRUE
    /\ callerQuery = "all"
    /\ callerPipeline = <<>>
    /\ lastCall = NoCall
    /\ toolInput = NotJson
    /\ lastTool = NoTool
    /\ AssistantInit
    /\ ViewInit

appFrame == <<pureVars, loadVars, storeVars, pc, turnVars>>

\* First run of the script in session s: 'messages' not in st.session_state
SessionStart(s) ==
    LET a == get_assistant(cache, Len(histories))
    IN  /\ ~sessions[s].started
        /\ cache' = a
        /\ histories' = IF a > Len(histories) THEN Append(histories, <<>>) ELSE histories
        /\ sessions' = [sessions EXCEPT ![s] = [NoSession EXCEPT !.started = TRUE,
                                                                 !.assistant = a]]
        /\ UNCHANGED appFrame

\* The user of session s submits a question (typed or a quick button); the
\* text of the question tells which session asked it.
Submit(s) ==
    LET q == Text("question", s)
    IN  /\ sessions[s].started
        /\ sessions[s].pending = NoText
        /\ sessions[s].running = NoText
        /\ Len(sessions[s].messages) + 2 <= MaxMessages
        /\ sessions' = [sessions EXCEPT
                            ![s].messages = Append(@, Turn("user", q)),
                            ![s].pending = q]
        /\ UNCHANGED <<cache, histories, appFrame>>

\* The rerun finds the pending question: query = pending_query, then
\* del st.session_state.pending_query; the "Thinking" placeholder is drawn.
TakePending(s) ==
    /\ sessions[s].started
    /\ sessions[s].pending # NoText
    /\ sessions[s].running = NoText
    /\ sessions' = [sessions EXCEPT ![s].running = sessions[s].pending,
                                    ![s].pending = NoText]
    /\ UNCHANGED <<cache, histories, appFrame>>

\* What one whole st.session_state.assistant.query(q) call does to the
\* assistant's history: it records the turn and answers, or returns the
\* error string and records nothing.
HistoriesAfterQuery(h, a, q, ok) ==
    IF ok
    THEN [h EXCEPT ![a] = @ \o <<Turn("user", q), Turn("assistant", AnswerTo(q))>>]
    ELSE h

\* The run goes on undisturbed and calls the assistant.  Each session's
\* script runs in a thread of its own, so the steps of query() on the shared
\* assistant are steps other sessions can come between: here the agent has
\* answered and query() appends the user turn.
QueryRecordsQuestion(s) ==
    LET a == sessions[s].assistant
    IN  /\ sessions[s].started
        /\ sessions[s].running # NoText
        /\ ~sessions[s].recorded
        /\ histories' = [histories EXCEPT ![a] = Append(@, Turn("user", sessions[s].running))]
        /\ sessions' = [sessions EXCEPT
                            ![s].recorded = TRUE,
                            ![s].context = format_chat_history(histories[a])]
        /\ UNCHANGED <<cache, appFrame>>

\* query() ends and the run appends its reply to the messages: after the
\* user turn, query() appends the assistant turn and returns the answer;
\* a query() that failed before recording anything returns its error string.
ProcessPending(s) ==
    LET a == sessions[s].assistant
        q == sessions[s].running
        ok == sessions[s].recorded
        reply == IF ok THEN AnswerTo(q) ELSE QueryExcept.text
    IN  /\ sessions[s].started
        /\ q # NoText
        /\ histories' = IF ok
                        THEN [histories EXCEPT ![a] = Append(@, Turn("assistant", reply))]
                        ELSE histories
        /\ sessions' = [sessions EXCEPT
                            ![s].messages = Append(@, Turn("assistant", reply)),
                            ![s].running = NoText,
                            ![s].recorded = FALSE,
                            ![s].context = IF ok THEN @ ELSE format_chat_history(histories[a])]
        /\ UNCHANGED <<cache, appFrame>>

\* The user submits another question while that run is still going.
\* Streamlit stops a running script at its next st.* call when the session's
\* user interacts with a widget, and runs the script again: the first run
\* ends at a placeholder call, before the assistant is called or after it has
\* returned, either way before messages.append; the new run appends the new
\* question and makes it the pending one.
SubmitWhileRunning(s) ==
    \E called \in BOOLEAN, ok \in BOOLEAN :
        LET a == sessions[s].assistant
            q == Text("question", s)
        IN  /\ sessions[s].started
            /\ sessions[s].running # NoText
            /\ ~sessions[s].recorded
            /\ Len(sessions[s].messages) + 2 <= MaxMessages
            /\ histories' =
                   IF called
                   THEN HistoriesAfterQuery(histories, a, sessions[s].running, ok)
                   ELSE histories
            /\ sessions' = [sessions EXCEPT
                                ![s].messages = Append(@, Turn("user", q)),
                                ![s].running = NoText,
                                ![s].pending = q,
                                ![s].context = IF called
                                               THEN format_chat_history(histories[a])
                                               ELSE @]
            /\ UNCHANGED <<cache, appFrame>>

\* "Clear Conversation" in session s
ClearConversation(s) ==
    /\ sessions[s].started
    /\ sessions[s].pending = NoText
    /\ sessions[s].running = NoText
    /\ Len(sessions[s].messages) > 0
    /\ sessions' = [sessions EXCEPT ![s].messages = <<>>]
    /\ histories' = [histories EXCEPT ![sessions[s].assistant] = <<>>]
    /\ UNCHANGED <<cache, appFrame>>

NextApp ==
    \E s \in Sessions :
        \/ SessionStart(s)
        \/ Submit(s)
        \/ TakePending(s)
        \/ QueryRecordsQuestion(s)
        \/ ProcessPending(s)
        \/ SubmitWhileRunning(s)
        \/ ClearConversation(s)

SpecApp == InitApp /\ [][NextApp]_vars

(***************************************************************************)
(* DataLoader.load_csv_to_mongodb: one call, on a file of some number of   *)
(* rows, with some chunk_size and max_records.                             *)
(***************************************************************************)
\* Python's truth value of max_records: None and 0 are both false
Truthy(m) == m.given /\ m.n # 0

ChunkSizes == {1, 2, MaxRows}

MaxRecordsArgs == {NotGiven} \cup {Given(n) : n \in 0..(MaxRows + 1)}

InitLoad ==
    /\ collection = MakeCollection(0)
    /\ storeUp = TRUE
    /\ callerQuery = "all"
    /\ callerPipeline = <<>>
    /\ lastCall = NoCall
    /\ toolInput = NotJson
    /\ lastTool = NoTool
    /\ AssistantInit
    /\ record = [fiscal_year |-> 0, creation_month |-> 1, quarter |-> NoQuarter]
    /\ total_spending = 0
    /\ metric = NoMetric
    /\ cache = 0
    /\ histories = <<>>
    /\ sessions = [s \in Sessions |-> NoSession]
    /\ max_records \in MaxRecordsArgs
    /\ chunk_size \in ChunkSizes
    /\ rows_left \in 0..MaxRows
    /\ chunks_read = 0
    /\ stats = NoStats
    /\ last_chunk = NoChunk

loadFrame == <<max_records, chunk_size, pureVars, appVars, storeVars, pc, turnVars>>

\* The records of a chunk that are handed to insert_many: records[:remaining]
RecordsOf(chunk, m, total) ==
    IF Truthy(m) THEN Min(chunk, m.n - total) ELSE chunk

\* The test at the top of the loop body
ReachedMaximum(m, total) == Truthy(m) /\ total >= m.n

\* One iteration of the for loop: the iterator reads the next chunk, then
\* either the loop breaks (and the function finishes), or the chunk is
\* cleaned, cut to the remaining count and inserted, which succeeds or raises.
LoadChunk ==
    LET chunk == Min(chunk_size, rows_left)
        records == RecordsOf(chunk, max_records, stats.total_records)
    IN  /\ stats.status = ""
        /\ rows_left > 0
        /\ rows_left' = rows_left - chunk
        /\ chunks_read' = chunks_read + 1
        /\ IF ReachedMaximum(max_records, stats.total_records)
           THEN /\ stats' = [stats EXCEPT !.status = "success"]
                /\ last_chunk' = [outcome |-> "break", records |-> 0]
           ELSE \E inserted_ok \in BOOLEAN :
                    IF inserted_ok
                    THEN /\ stats' = [stats EXCEPT
                                         !.inserted_records = @ + records,
                                         !.total_records = @ + records]
                         /\ last_chunk' = [outcome |-> "inserted", records |-> records]
                    ELSE /\ stats' = [stats EXCEPT !.failed_records = @ + records]
                         /\ last_chunk' = [outcome |-> "failed", records |-> records]
        /\ UNCHANGED loadFrame

\* The iterator is exhausted: indexes are created and the stats returned.
LoadEnds ==
    /\ stats.status = ""
    /\ rows_left = 0
    /\ stats' = [stats EXCEPT !.status = "success"]
    /\ last_chunk' = [outcome |-> "end", records |-> 0]
    /\ UNCHANGED <<rows_left, chunks_read, loadFrame>>

\* The outer except: count_documents, read_csv or clean_data raised.
LoadRaises ==
    /\ stats.status = ""
    /\ stats' = [stats EXCEPT !.status = "error"]
    /\ last_chunk' = [outcome |-> "raised", records |-> 0]
    /\ UNCHANGED <<rows_left, chunks_read, loadFrame>>

NextLoad == LoadChunk \/ LoadEnds \/ LoadRaises

SpecLoad == InitLoad /\ [][NextLoad]_vars

(***************************************************************************)
(* Properties of the executor (SpecExec)                                   *)
(***************************************************************************)

\* C1: every executor call that returns gives back at most `limit` results,
\* whatever stages the pipeline already holds.
C1_ResultsWithinLimit ==
    (lastCall.op # "none" /\ ~lastCall.raised)
        => Len(lastCall.results) <= lastCall.limit

\* C2: execute_aggregation sends the given stages followed by exactly one
\* final {"$limit": limit} stage when no given stage has a "$limit" key, and
\* sends the given stages unchanged when one has.
C2_SentStages ==
    lastCall.op = "aggregate" =>
        LET given == lastCall.given
            sent == lastCall.sent
            limited == \E i \in 1..Len(given) : given[i].op = "$limit"
        IN  /\ ~limited =>
                /\ Len(sent) = Len(given) + 1
                /\ SubSeq(sent, 1, Len(given)) = given
                /\ sent[Len(sent)] = [op |-> "$limit", filter |-> "", n |-> lastCall.limit]
            /\ limited => sent = given

C2_Witness ==
    /\ lastCall.op = "aggregate"
    /\ ~lastCall.raised
    /\ Len(lastCall.given) = 2
    /\ Len(lastCall.sent) = 3
    /\ lastCall.limit = 10

(***************************************************************************)
(* Properties of the tool action (SpecTool)                                *)
(***************************************************************************)
ToolRan == lastTool.query_type # "none"

\* The payload is not JSON, or is JSON of a shape the action cannot use.
MalformedPayload ==
    \/ lastTool.payload.type = "notjson"
    \/ lastTool.payload.type = "number"
    \/ lastTool.query_type = "find" /\ lastTool.payload.type = "list"

\* The payload was well formed and the store rejected it or was unavailable.
StoreRefused == lastTool.called # "none" /\ lastTool.exec.raised

IsErrorObject(out) == "error" \in out.keys /\ out.error # ""

\* C3: a tool action never raises, and a malformed payload or a query the
\* store refuses gives an error object carrying a message.
C3_ToolErrorsAreReturned ==
    ToolRan =>
        /\ ~lastTool.raised
        /\ (MalformedPayload \/ StoreRefused) => IsErrorObject(lastTool.out)

C3_Witness ==
    /\ lastTool.query_type = "find"
    /\ lastTool.payload.type = "list"
    /\ IsErrorObject(lastTool.out)
    /\ storeUp

\* The number of records the request matches in the store, whatever cap is
\* applied afterwards.
TrueMatchCount ==
    IF lastTool.called = "find"
    THEN Len(Select(collection, lastTool.query))
    ELSE Len(RunPipeline(collection, lastTool.pipeline))

\* C7: when more records match than the tool hands back, the output carries
\* a truncation note stating the true match count.
C7_TruncationNoteStatesTrueCount ==
    (ToolRan /\ lastTool.called # "none" /\ ~lastTool.exec.raised
        /\ ~HasLimitStage(lastTool.pipeline)
        /\ TrueMatchCount > Len(lastTool.out.results))
        => /\ lastTool.out.note.text # ""
           /\ lastTool.out.note.of = TrueMatchCount

\* C8: with n >= 1 executor results the summary has count n, the first
\* min(n, 10) results in order, and a note exactly when n > 10.
C8_BoundedSummary ==
    (ToolRan /\ lastTool.called # "none" /\ ~lastTool.exec.raised
        /\ Len(lastTool.exec.results) >= 1)
        => LET n == Len(lastTool.exec.results)
               out == lastTool.out
           IN  /\ out.keys = {"count", "results", "note"}
               /\ out.count = n
               /\ Len(out.results) = Min(n, 10)
               /\ \A i \in 1..Len(out.results) : out.results[i] = lastTool.exec.results[i]
               /\ (out.note.text # "") <=> (n > 10)

C8_Witness ==
    /\ ToolRan
    /\ ~lastTool.exec.raised
    /\ Len(lastTool.exec.results) = 11
    /\ Len(lastTool.out.results) = 10
    /\ lastTool.out.note.text # ""

\* C9: a request that matches nothing gives the empty-result marker (count
\* 0, no error field); an error field appears only when parsing or
\* execution failed.
C9_EmptyIsNotError ==
    ToolRan =>
        /\ (~MalformedPayload /\ ~StoreRefused /\ lastTool.exec.results = <<>>)
              => /\ lastTool.out.keys = {"message", "count"}
                 /\ lastTool.out.count = 0
                 /\ lastTool.out.message # ""
        /\ "error" \in lastTool.out.keys => (MalformedPayload \/ StoreRefused)

C9_Witness ==
    /\ ToolRan
    /\ lastTool.called = "find"
    /\ lastTool.query = "none"
    /\ Len(collection) > 0
    /\ lastTool.out.count = 0
    /\ "error" \notin lastTool.out.keys

(***************************************************************************)
(* Properties of a turn (Spec)                                             *)
(***************************************************************************)

\* C4: a turn makes at most 3 tool invocations, and a turn whose iteration
\* budget is used up still returns a non-empty answer string.
C4_BoundedToolCalls ==
    /\ toolCalls <= 3
    /\ (pc = "idle" /\ iterations >= 3 /\ returned.kind # "reset")
          => (returned.kind = "answer" /\ returned.text.kind # "empty")

\* The part of C4 about the exhausted budget alone: such a turn returns the
\* executor's stop message, a non-empty answer.
BudgetExhaustedStillAnswers ==
    (pc = "idle" /\ iterations >= MAX_ITERATIONS /\ returned.kind # "reset")
        => (returned.kind = "answer" /\ returned.text.kind # "empty")

\* The iteration counter, unlike the tool invocations, stays within the budget.
IterationsWithinBudget == iterations <= MAX_ITERATIONS

\* C5: query() never lets an exception out; a failed turn returns an error
\* string.
C5_QueryNeverRaises ==
    /\ returned.kind \in {"none", "answer", "error", "reset"}
    /\ returned.kind = "error" => returned.text.kind # "empty"

C5_Witness ==
    /\ pc = "idle"
    /\ ~storeUp
    /\ toolCalls >= 1
    /\ returned.kind = "error"

\* C6: after a turn that ended with the error string, the turn's question
\* is in conversation_history.
C6_FailedTurnRecordsQuestion ==
    (pc = "idle" /\ returned.kind = "error")
        => \E i \in 1..Len(conversation_history) :
               conversation_history[i] = [role |-> "user", content |-> question]

\* C10: the window handed to the agent is the most recent min(10, k) of the
\* k recorded turns, in order and with their roles; after a reset it is
\* empty.
C10_ContextWindow ==
    pc = "decide" =>
        LET k == Len(conversation_history)
            n == Len(chat_history)
        IN  /\ n = Min(10, k)
            /\ \A i \in 1..n :
                   LET turn == conversation_history[k - n + i]
                   IN  /\ chat_history[i].content = turn.content
                       /\ chat_history[i].type = "human" <=> turn.role = "user"
                       /\ chat_history[i].type = "ai" <=> turn.role = "assistant"
            /\ returned.kind = "reset" => chat_history = <<>>

C10_Witness ==
    /\ pc = "decide"
    /\ Len(conversation_history) = 12
    /\ Len(chat_history) = 10
    /\ chat_history[1].content = [kind |-> "question", n |-> 2]
    /\ chat_history[10].content = [kind |-> "stopped", n |-> 0]

C10_ResetWitness ==
    /\ pc = "decide"
    /\ returned.kind = "reset"
    /\ chat_history = <<>>
    /\ iterations > 0

\* C11: conversation_history never holds more than 10 turns.
C11_HistoryBounded == Len(conversation_history) <= 10

\* A "$group" stage sums Total Price; a "$match" stage with one of these
\* filters requires Total Price to be present, numeric and > 0.
SumsPrice(p) == \E i \in 1..Len(p) : p[i].op = "$group"

RequiresPositivePrice(f) == f \in {"pricePos", "fy0pricePos"}

FilteredBeforeSum(p) ==
    \E i \in 1..Len(p) :
        /\ p[i].op = "$group"
        /\ \A k \in 1..(i - 1) : p[k].op # "$group"
        /\ \E j \in 1..(i - 1) :
               p[j].op = "$match" /\ RequiresPositivePrice(p[j].filter)

\* C12: every pipeline executed against the store that sums Total Price has,
\* before its first summing stage, the filter on a positive numeric price.
C12_PriceFilterBeforeSum ==
    (lastTool.called = "aggregate" /\ ~lastTool.exec.raised
        /\ SumsPrice(lastTool.exec.sent))
        => FilteredBeforeSum(lastTool.exec.sent)

\* The part of C12 about DataExplorer alone: each pipeline it builds filters
\* the price before it sums.
ExplorerPipelinesFilterPrice ==
    \A call \in ExplorerCalls : FilteredBeforeSum(call.pipeline)

\* C15: no executor call and no tool action changes the store's contents.
C15_StoreUnchanged == [][collection' = collection]_vars

(***************************************************************************)
(* Properties of construction and of the loop's error handling (Spec)      *)
(***************************************************************************)

\* C14: a tool invocation that comes back with an error payload (every one
\* does while the store is down) leaves the turn in progress, with nothing
\* returned or recorded yet; from there, while the budget lasts, the loop can
\* invoke a tool again or give its final answer, and with the budget used up
\* it stops with an answer.
C14_ToolErrorDoesNotAbort ==
    /\ [][(pc = "decide" /\ ~storeUp /\ toolCalls' > toolCalls)
            => /\ pc' = "decide"
               /\ observation' = "error"
               /\ returned' = returned
               /\ conversation_history' = conversation_history]_vars
    /\ []((pc = "decide" /\ observation = "error")
            => IF iterations < MAX_ITERATIONS
               THEN ENABLED AgentInvokeTool /\ ENABLED AgentFinish
               ELSE ENABLED AgentStopped)

C14_Witness ==
    /\ pc = "decide"
    /\ observation = "error"
    /\ iterations = 2
    /\ toolCalls >= 2

\* C16: with OPENAI_API_KEY absent or empty, every ProcurementAssistant()
\* call raises the configuration error, no connect() call has been made and
\* there is never an assistant.
C16_ConfigFailFast ==
    /\ [](apiKey # "set"
            => /\ pc = "new"
               /\ connectCalls = 0
               /\ db_client = 0
               /\ constructError \in {"none", "config"})
    /\ [][(apiKey # "set" /\ pc = "new" /\ storeUp' = storeUp)
            => constructError' = "config"]_vars

C16_Witness ==
    /\ apiKey \in {"absent", "empty"}
    /\ constructError = "config"
    /\ storeUp

\* C17: with the store unreachable, ProcurementAssistant() raises the
\* connection failure and leaves no instance; once there is an instance,
\* nothing it is asked to do raises, whatever the store does.
C17_OnlyConstructionPropagates ==
    /\ [][(pc = "new" /\ apiKey = "set" /\ ~storeUp /\ storeUp' = storeUp)
            => /\ pc' = "new"
               /\ constructError' = "connection"
               /\ db_client' = 0]_vars
    /\ [](constructError = "connection" => (pc = "new" /\ db_client = 0))
    /\ [](pc # "new"
            => /\ constructError = "none"
               /\ returned.kind \in {"none", "answer", "error", "reset"})

C17_Witness ==
    /\ pc = "new"
    /\ apiKey = "set"
    /\ constructError = "connection"

\* The other half of C17's case: the store went down after construction and
\* a turn that invoked a tool still returned.
C17_DownAfterConstructionWitness ==
    /\ pc = "idle"
    /\ ~storeUp
    /\ toolCalls >= 1
    /\ returned.kind = "answer"

\* C20: an assistant holds the one connection its construction opened, over
\* every sequence of turns and resets: no step of a turn and no reset opens
\* or replaces a connection.
C20_ConnectedOnce ==
    /\ [](pc \in {"idle", "decide"} => (connectCalls = 1 /\ db_client = 1))
    /\ [][pc # "new" => (connectCalls' = connectCalls /\ db_client' = db_client)]_vars

C20_Witness ==
    /\ pc = "decide"
    /\ Len(conversation_history) >= 4
    /\ toolCalls >= 1
    /\ connectCalls = 1
    /\ db_client = 1

(***************************************************************************)
(* Properties of the quarter mapping and of the spending figure (SpecPure) *)
(***************************************************************************)

\* C18: a month number is mapped to Q1 for 7..9, Q2 for 10..12, Q3 for 1..3,
\* Q4 for 4..6 and "Unknown" for any other integer, whatever the record's
\* fiscal year.
C18_QuarterMapping ==
    record.quarter # NoQuarter =>
        LET m == record.creation_month
        IN  record.quarter =
                CASE m \in 7..9 -> "Q1"
                  [] m \in 10..12 -> "Q2"
                  [] m \in 1..3 -> "Q3"
                  [] m \in 4..6 -> "Q4"
                  [] OTHER -> "Unknown"

C18_Witness ==
    /\ record.creation_month = 13
    /\ record.fiscal_year = 2
    /\ record.quarter = "Unknown"

C18_BoundaryWitness ==
    /\ record.creation_month = 7
    /\ record.quarter = "Q1"

\* The bucket the scaling rule gives a magnitude
ExpectedSuffix(v) ==
    IF v >= Billion THEN "B"
    ELSE IF v >= Million THEN "M"
    ELSE IF v >= TenThousand THEN "K"
    ELSE ""

\* C19: every formatted amount starts with "$" and carries the suffix of its
\* magnitude: B from 1e9, M from 1e6, K from 1e4, none below.
C19_ScalingBuckets ==
    metric # NoMetric =>
        /\ metric.prefix = "$"
        /\ metric.suffix = ExpectedSuffix(total_spending)

(***************************************************************************)
(* Properties of the application's sessions (SpecApp)                      *)
(***************************************************************************)

\* The turns of session s recorded in history h
TurnsOf(h, s) == SelectSeq(h, LAMBDA t : t.content.n = s)

\* C13: two sessions never hold the same assistant, the context window of a
\* session's turn holds turns of that session only, and a step that is not
\* this session's leaves this session's recorded turns in place.
C13_SessionsIsolated ==
    /\ [](\A s \in Sessions : \A t \in Sessions :
            (s # t /\ sessions[s].started /\ sessions[t].started)
                => sessions[s].assistant # sessions[t].assistant)
    /\ [](\A s \in Sessions :
            \A i \in 1..Len(sessions[s].context) :
                sessions[s].context[i].content.n = s)
    /\ [][\A s \in Sessions :
            (sessions[s].started /\ sessions'[s] = sessions[s])
                => TurnsOf(histories'[sessions[s].assistant], s)
                       = TurnsOf(histories[sessions[s].assistant], s)]_vars

\* The three parts of C13, one at a time.
SessionsOwnTheirAssistant ==
    \A s \in Sessions : \A t \in Sessions :
        (s # t /\ sessions[s].started /\ sessions[t].started)
            => sessions[s].assistant # sessions[t].assistant

ContextHoldsOwnTurnsOnly ==
    \A s \in Sessions :
        \A i \in 1..Len(sessions[s].context) : sessions[s].context[i].content.n = s

ResetLeavesOtherSessions ==
    [][\A s \in Sessions :
        (sessions[s].started /\ sessions'[s] = sessions[s])
            => TurnsOf(histories'[sessions[s].assistant], s)
                   = TurnsOf(histories[sessions[s].assistant], s)]_vars

(***************************************************************************)
(* Further properties of the turn, the tool action and the executor        *)
(***************************************************************************)

\* With one caller at a time, conversation_history always has even length
\* and alternates user, assistant; a turn that ends with an answer appends
\* its question and that answer, a turn that ends with the error string
\* appends nothing, no step inside a turn touches the history, and
\* reset_conversation empties it.
SequentialHistoryAlternates ==
    /\ [](/\ Len(conversation_history) % 2 = 0
          /\ \A i \in 1..Len(conversation_history) :
                 conversation_history[i].role =
                     IF i % 2 = 1 THEN "user" ELSE "assistant")
    /\ [][(pc = "decide" /\ pc' = "idle")
            => IF returned'.kind = "answer"
               THEN conversation_history' =
                        conversation_history
                            \o <<Turn("user", question), Turn("assistant", returned'.text)>>
               ELSE conversation_history' = conversation_history]_vars
    /\ [][pc' = "decide" => conversation_history' = conversation_history]_vars
    /\ [][(pc = "idle" /\ pc' = "idle" /\ storeUp' = storeUp)
            => conversation_history' = <<>>]_vars

FailedTurnKeepsHistory ==
    /\ pc = "idle"
    /\ Len(conversation_history) = 4
    /\ returned.kind = "error"
    /\ question.n = 3

\* C22: a find payload that is a JSON object without "query", or an
\* aggregate payload that is a JSON object without "pipeline", gives an error
\* object and nothing is executed for it.
C22_MissingFieldIsError ==
    (/\ ToolRan
     /\ lastTool.payload.type = "dict"
     /\ \/ lastTool.query_type = "find" /\ "query" \notin lastTool.payload.keys
        \/ lastTool.query_type = "aggregate" /\ "pipeline" \notin lastTool.payload.keys)
        => (IsErrorObject(lastTool.out) /\ lastTool.called = "none")

\* C23: a call of execute_aggregation on the caller's list appends one
\* "$limit" stage carrying that call's limit when the list holds none, and
\* leaves a list that holds one as it is; so after the first call every
\* further call, whatever its limit, changes nothing.
C23_AppendsInPlaceOnce ==
    [][/\ HasLimitStage(callerPipeline) => callerPipeline' = callerPipeline
       /\ (~HasLimitStage(callerPipeline) /\ lastCall'.by = "caller"
              /\ lastCall'.op = "aggregate" /\ lastCall' # lastCall)
             => callerPipeline' = Append(callerPipeline, LimitStage(lastCall'.limit))
       /\ callerPipeline' # callerPipeline
             => (lastCall'.by = "caller" /\ lastCall'.op = "aggregate")]_vars

C23_Witness ==
    /\ lastCall.by = "caller"
    /\ lastCall.op = "aggregate"
    /\ lastCall.limit = ExecutorLimit
    /\ lastCall.given = callerPipeline
    /\ Len(callerPipeline) = 3
    /\ callerPipeline[3] = LimitStage(ToolCap)
    /\ ~HasLimitStage(SubSeq(callerPipeline, 1, 2))

(***************************************************************************)
(* Properties of the loader (SpecLoad)                                     *)
(***************************************************************************)

\* C25: after every chunk inserted_records <= total_records; with
\* max_records given, total_records never exceeds it; a chunk whose insert
\* fails adds its records to failed_records only; and once total_records has
\* reached max_records the loop takes no further chunk.
C25_LoadCounters ==
    /\ [](stats.inserted_records <= stats.total_records)
    /\ [](max_records.given => stats.total_records <= max_records.n)
    /\ [][last_chunk'.outcome = "failed" /\ chunks_read' # chunks_read
            => /\ stats'.failed_records = stats.failed_records + last_chunk'.records
               /\ stats'.total_records = stats.total_records
               /\ stats'.inserted_records = stats.inserted_records]_vars
    /\ [][(max_records.given /\ stats.total_records >= max_records.n)
            => /\ stats'.total_records = stats.total_records
               /\ stats'.inserted_records = stats.inserted_records
               /\ stats'.failed_records = stats.failed_records
               /\ stats'.status # ""]_vars

\* What holds of the counters whatever max_records is.
LoadCountersAnyMax ==
    /\ [](stats.inserted_records = stats.total_records)
    /\ [][last_chunk'.outcome = "failed" /\ chunks_read' # chunks_read
            => /\ stats'.failed_records = stats.failed_records + last_chunk'.records
               /\ stats'.total_records = stats.total_records
               /\ stats'.inserted_records = stats.inserted_records]_vars

\* What holds of the maximum when max_records is a number other than 0.
LoadMaximumWhenNonZero ==
    /\ []((max_records.given /\ max_records.n # 0)
            => stats.total_records <= max_records.n)
    /\ [][(max_records.given /\ max_records.n # 0
              /\ stats.total_records >= max_records.n)
            => (stats'.total_records = stats.total_records /\ stats'.status # "")]_vars

\* max_records=0 loaded the whole file.
LoadedPastZeroMaximum ==
    /\ max_records = Given(0)
    /\ stats.status = "success"
    /\ stats.total_records = MaxRows

(***************************************************************************)
(* Properties of the chat UI (SpecApp)                                     *)
(***************************************************************************)
Alternates(messages) ==
    /\ Len(messages) % 2 = 0
    /\ \A i \in 1..Len(messages) :
           messages[i].role = IF i % 2 = 1 THEN "user" ELSE "assistant"

\* C24: a submitted question is appended as a user message and becomes the
\* pending query; it is no longer pending while the assistant is called; and
\* whenever a session has nothing pending and nothing being processed, its
\* messages alternate user, assistant: every question got exactly one reply.
C24_EachQuestionAnsweredOnce ==
    /\ [][\A s \in Sessions :
            (sessions[s].pending = NoText /\ sessions'[s].pending # NoText)
                => /\ Len(sessions'[s].messages) = Len(sessions[s].messages) + 1
                   /\ sessions'[s].messages[Len(sessions'[s].messages)]
                          = Turn("user", sessions'[s].pending)]_vars
    /\ [](\A s \in Sessions : sessions[s].running # NoText => sessions[s].pending = NoText)
    /\ [](\A s \in Sessions :
            (sessions[s].pending = NoText /\ sessions[s].running = NoText)
                => Alternates(sessions[s].messages))

\* Without a submission during a run, C24 holds: a run that has taken the
\* pending question appends exactly one assistant message, whether query()
\* answered or gave its error string.
RunAppendsOneReply ==
    [][\A s \in Sessions :
          (sessions[s].running # NoText /\ sessions'[s].running = NoText
              /\ sessions'[s].pending = NoText)
              => /\ Len(sessions'[s].messages) = Len(sessions[s].messages) + 1
                 /\ sessions'[s].messages[Len(sessions'[s].messages)].role = "assistant"]_vars

\* No query() call on assistant a is between its two appends.
NoQueryRecording(a) ==
    \A s \in Sessions : sessions[s].assistant = a => ~sessions[s].recorded

\* C21: whenever no query() call is under way on an assistant, its
\* conversation_history has even length and alternates user, assistant.
C21_HistoryAlternates ==
    \A a \in 1..Len(histories) :
        NoQueryRecording(a) => Alternates(histories[a])

====
